---------------------------- MODULE Spec2Model ----------------------------
(***************************************************************************)
(* A model of main.ipynb: a variational auto-encoder on 28x28x1 images.    *)
(*                                                                         *)
(* Three things are modelled.                                              *)
(*  - The computation graph (encoder, decoder, losses, train_step) as the  *)
(*    sequence of its operations, each acting on the shape of the tensor   *)
(*    it produces, on the set of layers at which dropout was applied, and  *)
(*    on the random draws the values depend on.  One execution of the      *)
(*    graph (one sess.run) is a record; OpStep executes its next           *)
(*    operation and RunGraph executes it to the end.                       *)
(*  - The notebook's last two cells: the checkpoint-restore cell and the   *)
(*    training loop, whose sess.run calls are RunGraph.                    *)
(*  - The arithmetic of latent_loss for one example, in thousandths.       *)
(***************************************************************************)
EXTENDS Integers, Sequences, FiniteSets, TLC

\* ------------------------------------------------------------------------
\* Hyperparameters (the notebook's "Hyperparameters" cell)

image_size == 28
image_channel == 1
image_size_flat == image_size * image_size * image_channel
image_shape == <<image_size, image_size, image_channel>>

\* keep_prob = 0.8, in percent
keep_prob_pct == 80
n_latent == 8
decoder_units == (32 * image_channel) \div 2

batch_size == 24
iterations == 10000
log_step == 100
viz_step == 500

\* the default arguments of conv2d and conv2d_transpose
filters == 64
default_strides == 2

\* ------------------------------------------------------------------------
\* Bounds of the model

\* the largest batch fed to the placeholders X and y (their first dimension is None)
MaxBatch == 24
\* the number of distinct outcomes of one random draw (a dropout mask, a noise tensor)
NumSeeds == 2
\* the largest number of entries in the checkpoint directory at startup
MaxEntries == 4
\* the number of distinct mini-batches next_batch can return
NumBatches == 4
\* the largest latent dimension of the latent_loss arithmetic
MaxLatent == 2
\* mean and log-stddev components range over -MaxVal..MaxVal
MaxVal == 1

\* ------------------------------------------------------------------------
\* Tensor shapes

RECURSIVE Prod(_)
Prod(s) == IF s = <<>> THEN 1 ELSE Head(s) * Prod(Tail(s))

CeilDiv(a, d) == (a + d - 1) \div d

Max(a, c) == IF a >= c THEN a ELSE c

\* tf.reshape(X, [-1] + dims) succeeds when the element count divides
ReshapeOk(s, dims) == Prod(s) % Prod(dims) = 0
Reshape(s, dims) == <<Prod(s) \div Prod(dims)>> \o dims

\* tf.contrib.layers.flatten keeps the batch dimension
Flatten(s) == <<s[1], Prod(Tail(s))>>

\* numpy-style broadcasting of two shapes of the same rank
Broadcastable(s, t) ==
    /\ Len(s) = Len(t)
    /\ \A k \in 1..Len(s) : s[k] = t[k] \/ s[k] = 1 \/ t[k] = 1
Broadcast(s, t) == [k \in 1..Len(s) |-> Max(s[k], t[k])]

\* tf.nn.dropout(layer, keep_prob) alters the layer unless keep_prob is 1
DropoutActive == keep_prob_pct < 100

\* ------------------------------------------------------------------------
\* One execution of the graph.  A run is a record:
\*   fetch      what sess.run was asked for
\*   b          the batch dimension of the feed (X and y are fed the same batch)
\*   stage      the index in Ops of the next operation
\*   status     "running", "done", or "failed" (the operation at stage raised)
\*   x          the shape of the local variable X of encoder/decoder
\*   tens       the shapes of the tensors computed so far, by operation
\*   dropoutAt  the layers at which tf.nn.dropout was applied in this run
\*   h          the dropout draws the current activations depend on
\*   seedD, seedN  this run's draw of the dropout masks and of the noise
\*   params     the number of optimizer steps the parameters have received
\*   applied    the number of optimizer steps this run applied
\*   meanV, stddevV, zV  what the values of mean, stddev and z depend on

Ops == << "enc_reshape", "enc_conv1", "enc_conv2", "enc_conv3", "enc_flatten",
          "latent", "dec_dense", "dec_reshape", "deconv1", "deconv2",
          "deconv3", "dec_flatten", "dec_out", "img_loss", "latent_loss",
          "loss", "apply" >>

Fetches == {"train_step", "log", "img"}

\* the last operation a fetch needs: img needs the decoder, the logged list
\* [loss, img_loss, latent_loss, mean, stddev] needs loss, train_step needs all
LastOp(fetch) ==
    CASE fetch = "img" -> 13
      [] fetch = "log" -> 16
      [] fetch = "train_step" -> 17

NoValue == <<>>

NewRun(fetch, b, p, d, n) ==
    [ fetch |-> fetch, b |-> b, stage |-> 1, status |-> "running",
      x |-> <<b, image_size_flat>>, tens |-> <<>>, dropoutAt |-> {},
      h |-> <<>>, seedD |-> d, seedN |-> n, params |-> p, applied |-> 0,
      meanV |-> NoValue, stddevV |-> NoValue, zV |-> NoValue ]

Has(r, op) == op \in DOMAIN r.tens

Put(r, op, shape) == [r EXCEPT !.x = shape, !.tens = (op :> shape) @@ @]

Raise(r) == [r EXCEPT !.status = "failed"]

dropout_applied(r, op, dropout) ==
    IF dropout /\ DropoutActive
    THEN [r EXCEPT !.dropoutAt = @ \cup {op}, !.h = Append(@, r.seedD)]
    ELSE r

conv2d(r, op, strides, dropout) ==
    LET s == r.x
        out == <<s[1], CeilDiv(s[2], strides), CeilDiv(s[3], strides), filters>>
    IN  dropout_applied(Put(r, op, out), op, dropout)

conv2d_transpose(r, op, strides, dropout) ==
    LET s == r.x
        out == <<s[1], s[2] * strides, s[3] * strides, filters>>
    IN  dropout_applied(Put(r, op, out), op, dropout)

dense(r, op, units) == Put(r, op, <<r.x[1], units>>)

\* the strides and dropout flags of the encoder's three conv2d calls
EncStrides == <<default_strides, default_strides, 1>>
EncDropout == <<TRUE, TRUE, TRUE>>

\* the strides and dropout flags of the decoder's three conv2d_transpose calls
DecStridesMirror == <<default_strides, default_strides, 1>>
DecStrides == <<default_strides, 1, 1>>
DecDropout == <<TRUE, TRUE, FALSE>>

enc_reshape(r) ==
    LET dims == <<image_size, image_size, image_channel>>
    IN  IF ReshapeOk(r.x, dims) THEN Put(r, "enc_reshape", Reshape(r.x, dims))
        ELSE Raise(r)

enc_flatten(r) == Put(r, "enc_flatten", Flatten(r.x))

\* mean, stddev, noise and z
latent(r) ==
    LET s == <<r.x[1], n_latent>>
        m == [of |-> "mean", params |-> r.params, drop |-> r.h]
        sd == [of |-> "stddev", params |-> r.params, drop |-> r.h]
    IN  [ r EXCEPT !.x = s,
                   !.tens = ("mean" :> s) @@ ("stddev" :> s) @@ ("noise" :> s)
                            @@ ("z" :> s) @@ @,
                   !.meanV = m, !.stddevV = sd,
                   !.zV = [mean |-> m, stddev |-> sd, noise |-> r.seedN] ]

\* X = dense(z, decoder_units) is overwritten by X = dense(z, decoder_units*2)
dec_dense(r) ==
    LET z == [r EXCEPT !.x = r.tens["z"]]
    IN  dense(z, "dec_dense", decoder_units * 2)

dec_reshape(r) ==
    LET shape == r.x[2] \div 2
        reshape_dim == <<shape, shape, image_channel>>
    IN  IF ReshapeOk(r.x, reshape_dim)
        THEN Put(r, "dec_reshape", Reshape(r.x, reshape_dim))
        ELSE Raise(r)

dec_flatten(r) == Put(r, "dec_flatten", Flatten(r.x))

\* the sigmoid dense layer and the reshape to [-1, *image_shape]
dec_out(r) ==
    LET d == dense(r, "dec_out", image_size_flat)
    IN  IF ReshapeOk(d.x, image_shape)
        THEN Put(d, "img", Reshape(d.x, image_shape))
        ELSE Raise(d)

\* img_reshape, squared_difference against y, reduce_sum over axis 1
img_loss(r) ==
    LET img_reshape == <<Prod(r.tens["img"]) \div image_size_flat, image_size_flat>>
        y == <<r.b, image_size_flat>>
    IN  IF Broadcastable(img_reshape, y)
        THEN Put(r, "img_loss", <<Broadcast(img_reshape, y)[1]>>)
        ELSE Raise(r)

latent_loss(r) == Put(r, "latent_loss", <<r.tens["mean"][1]>>)

\* reduce_mean(img_loss + latent_loss)
loss(r) ==
    IF Broadcastable(r.tens["img_loss"], r.tens["latent_loss"])
    THEN Put(r, "loss", <<>>)
    ELSE Raise(r)

\* train_step = optimizer.minimize(loss): one Adam update of every parameter
apply_step(r) == [r EXCEPT !.params = @ + 1, !.applied = @ + 1]

Execute(r, op) ==
    CASE op = "enc_reshape" -> enc_reshape(r)
      [] op = "enc_conv1"   -> conv2d(r, op, EncStrides[1], EncDropout[1])
      [] op = "enc_conv2"   -> conv2d(r, op, EncStrides[2], EncDropout[2])
      [] op = "enc_conv3"   -> conv2d(r, op, EncStrides[3], EncDropout[3])
      [] op = "enc_flatten" -> enc_flatten(r)
      [] op = "latent"      -> latent(r)
      [] op = "dec_dense"   -> dec_dense(r)
      [] op = "dec_reshape" -> dec_reshape(r)
      [] op = "deconv1"     -> conv2d_transpose(r, op, DecStrides[1], DecDropout[1])
      [] op = "deconv2"     -> conv2d_transpose(r, op, DecStrides[2], DecDropout[2])
      [] op = "deconv3"     -> conv2d_transpose(r, op, DecStrides[3], DecDropout[3])
      [] op = "dec_flatten" -> dec_flatten(r)
      [] op = "dec_out"     -> dec_out(r)
      [] op = "img_loss"    -> img_loss(r)
      [] op = "latent_loss" -> latent_loss(r)
      [] op = "loss"        -> loss(r)
      [] op = "apply"       -> apply_step(r)

\* execute the next operation of a running graph; a raise ends the run
OpStep(r) ==
    LET q == Execute(r, Ops[r.stage])
    IN  IF q.status = "failed" THEN q
        ELSE IF r.stage = LastOp(r.fetch) THEN [q EXCEPT !.status = "done"]
        ELSE [q EXCEPT !.stage = @ + 1]

\* sess.run(fetch, feed_dict): the graph executed to its end or to the raise
RECURSIVE RunFrom(_)
RunFrom(r) == IF r.status # "running" THEN r ELSE RunFrom(OpStep(r))

RunGraph(fetch, b, p, d, n) == RunFrom(NewRun(fetch, b, p, d, n))

\* ------------------------------------------------------------------------
\* latent_loss for one example, in fixed point: mean and stddev components are
\* integers, tf.exp is tabulated in thousandths, and the result is kept in
\* units of 1/2000 so that the factor -0.5 is exact.

Vals == (0 - MaxVal)..MaxVal

\* round(1000 * e^x) for the even arguments the model uses
ExpMilli(x) ==
    CASE x = 0  -> 1000
      [] x = 2  -> 7389
      [] x = -2 -> 135
      [] x = 4  -> 54598
      [] x = -4 -> 18
      [] x = 6  -> 403429
      [] x = -6 -> 2

\* 1.0 + 2.0 * stddev - tf.square(mean) - tf.exp(2.0 * stddev), in thousandths
KLTermNoOne(m, s) == 2000 * s - 1000 * (m * m) - ExpMilli(2 * s)
KLTerm(m, s) == 1000 + 2000 * s - 1000 * (m * m) - ExpMilli(2 * s)

RECURSIVE SumTerms(_, _, _)
SumTerms(m, s, k) ==
    IF k = 0 THEN 0 ELSE KLTerm(m[k], s[k]) + SumTerms(m, s, k - 1)

\* -0.5 * tf.reduce_sum(..., axis=1), times 2000
LatentLoss(m, s) == 0 - SumTerms(m, s, Len(m))

\* ------------------------------------------------------------------------
\* State

VARIABLES
    pc,            \* "restore", "batch", "body", "done", "aborted"; "graph" and
                   \* "kl" when only the graph or only latent_loss is exercised
    i,             \* the loop variable: the index of the current iteration
    dirExists,     \* tf.gfile.Exists(save_path)
    dirEntries,    \* len(os.listdir(save_path))
    restoreCalls,  \* the number of calls of saver.restore
    params,        \* the session's variables: where they come from and the
                   \* number of optimizer steps they have received
    drawn,         \* the number of calls of data.train.next_batch
    batch,         \* the mini-batch held by feed_dict (0: none yet)
    lines,         \* the number of lines written to sys.stdout
    shown,         \* the number of figures shown
    failed,        \* the statement that raised, or "none"
    run,           \* the latest sess.run
    prev,          \* the sess.run before it, when the graph alone is exercised
    kl_mean, kl_stddev,   \* one example's mean and stddev vectors
    kl_done, kl_loss      \* latent_loss of that example, once computed

loopVars == <<pc, i, dirExists, dirEntries, restoreCalls, params, drawn, batch,
              lines, shown, failed>>
klVars == <<kl_mean, kl_stddev, kl_done, kl_loss>>
vars == <<loopVars, run, prev, klVars>>

Seeds == 1..NumSeeds

NoRun == [NewRun("img", 0, 0, 0, 0) EXCEPT !.status = "idle"]

KLIdle ==
    /\ kl_mean = <<>>
    /\ kl_stddev = <<>>
    /\ kl_done = FALSE
    /\ kl_loss = 0

LoopIdle(at) ==
    /\ pc = at
    /\ i = 0
    /\ dirExists = FALSE
    /\ dirEntries = 0
    /\ restoreCalls = 0
    /\ params = [origin |-> "init", steps |-> 0]
    /\ drawn = 0
    /\ batch = 0
    /\ lines = 0
    /\ shown = 0
    /\ failed = "none"

\* ------------------------------------------------------------------------
\* The notebook from the checkpoint cell on

\* the session has run global_variables_initializer; models/ is as the
\* previous sessions left it
Init ==
    /\ pc = "restore"
    /\ i = 0
    /\ dirExists \in BOOLEAN
    /\ dirEntries \in (IF dirExists THEN 0..MaxEntries ELSE {0})
    /\ restoreCalls = 0
    /\ params = [origin |-> "init", steps |-> 0]
    /\ drawn = 0
    /\ batch = 0
    /\ lines = 0
    /\ shown = 0
    /\ failed = "none"
    /\ run = NoRun
    /\ prev = NoRun
    /\ KLIdle

\* an exception leaves the cell: nothing catches it
OnRaiseRetry == "batch"
OnRaise == "aborted"

\* if tf.gfile.Exists(save_path): if len(os.listdir(save_path)) > 1: restore
RestoreWanted(exists, entries) == exists /\ entries > 1

\* The checkpoint cell.  saver.restore either loads the variables or raises.
RestoreCell ==
    /\ pc = "restore"
    /\ \E ok \in BOOLEAN :
        IF RestoreWanted(dirExists, dirEntries)
        THEN /\ restoreCalls' = restoreCalls + 1
             /\ IF ok
                THEN /\ params' = [origin |-> "checkpoint", steps |-> 0]
                     /\ pc' = "batch"
                     /\ failed' = failed
                ELSE /\ params' = params
                     /\ pc' = OnRaise
                     /\ failed' = "restore"
             /\ UNCHANGED <<dirExists, dirEntries>>
        ELSE /\ IF dirExists
                THEN UNCHANGED <<dirExists, dirEntries>>
                ELSE dirExists' = TRUE /\ dirEntries' = 0
             /\ pc' = "batch"
             /\ UNCHANGED <<restoreCalls, params, failed>>
    /\ UNCHANGED <<i, drawn, batch, lines, shown, run, prev, klVars>>

\* batch = data.train.next_batch(batch_size)[0]; feed_dict = {X: batch, y: batch}
NextBatch ==
    /\ pc = "batch"
    /\ \E bid \in 1..NumBatches : batch' = bid
    /\ drawn' = drawn + 1
    /\ pc' = "body"
    /\ UNCHANGED <<i, dirExists, dirEntries, restoreCalls, params, lines, shown,
                   failed, run, prev, klVars>>

\* line 384 assigns train_start; the logged line reads start_time
start_time_defined == FALSE
\* the format string holds the field {.2f}, an attribute lookup on a float
format_fields_valid == FALSE
WriteRaises == ~start_time_defined \/ ~format_fields_valid

\* The rest of the loop body, as a record threaded through its statements:
\* [i, steps, lines, shown, failed, run]

\* sess.run(train_step, feed_dict=feed_dict)
TrainLine(s, d, n) ==
    LET tr == RunGraph("train_step", batch_size, s.steps, d, n)
    IN  [s EXCEPT !.run = tr, !.steps = tr.params,
                  !.failed = IF tr.status = "failed" THEN "train" ELSE @]

\* if i % log_step == 0: sess.run([loss, img_loss, ...]); sys.stdout.write(...)
LogLines(s, d, n) ==
    IF s.failed # "none" \/ s.i % log_step # 0 THEN s
    ELSE LET lg == RunGraph("log", batch_size, s.steps, d, n)
             t == [s EXCEPT !.run = lg, !.steps = lg.params]
         IN  IF lg.status = "failed" THEN [t EXCEPT !.failed = "log"]
             ELSE IF WriteRaises THEN [t EXCEPT !.failed = "write"]
             ELSE [t EXCEPT !.lines = @ + 1]

\* if i % viz_step == 0: sess.run(img); plt.imshow; plt.show
VizLines(s, d, n) ==
    IF s.failed # "none" \/ s.i % viz_step # 0 THEN s
    ELSE LET vz == RunGraph("img", batch_size, s.steps, d, n)
             t == [s EXCEPT !.run = vz, !.steps = vz.params]
         IN  IF vz.status = "failed" THEN [t EXCEPT !.failed = "viz"]
             ELSE [t EXCEPT !.shown = @ + 1]

\* One pass through the loop body after the batch is drawn, and the for
\* statement's step to the next index or out of the loop.
Body ==
    /\ pc = "body"
    /\ \E d1 \in Seeds, n1 \in Seeds, d2 \in Seeds, n2 \in Seeds,
          d3 \in Seeds, n3 \in Seeds :
        LET s0 == [i |-> i, steps |-> params.steps, lines |-> lines,
                   shown |-> shown, failed |-> "none", run |-> run]
            s1 == TrainLine(s0, d1, n1)
            s2 == LogLines(s1, d2, n2)
            s3 == VizLines(s2, d3, n3)
        IN  /\ run' = s3.run
            /\ params' = [params EXCEPT !.steps = s3.steps]
            /\ lines' = s3.lines
            /\ shown' = s3.shown
            /\ failed' = s3.failed
            /\ IF s3.failed # "none"
               THEN pc' = OnRaise /\ i' = i
               ELSE /\ i' = i + 1
                    /\ pc' = IF i + 1 < iterations THEN "batch" ELSE "done"
    /\ UNCHANGED <<dirExists, dirEntries, restoreCalls, drawn, batch, prev, klVars>>

Next == RestoreCell \/ NextBatch \/ Body

Spec == Init /\ [][Next]_vars

\* ------------------------------------------------------------------------
\* The graph alone: one sess.run on any feed, operation by operation, and a
\* second sess.run of the same fetch on the same feed

InitRun ==
    /\ LoopIdle("graph")
    /\ run \in { NewRun(f, b, 0, d, n) :
                    f \in Fetches, b \in 1..MaxBatch, d \in Seeds, n \in Seeds }
    /\ prev = NoRun
    /\ KLIdle

Running == pc = "graph" /\ run.status = "running"

\* the operations of encoder(X)
RunEncoder ==
    /\ Running
    /\ run.stage \in 1..6
    /\ run' = OpStep(run)
    /\ UNCHANGED <<loopVars, prev, klVars>>

\* the operations of decoder(z)
RunDecoder ==
    /\ Running
    /\ run.stage \in 7..13
    /\ run' = OpStep(run)
    /\ UNCHANGED <<loopVars, prev, klVars>>

\* img_loss, latent_loss, loss
RunLosses ==
    /\ Running
    /\ run.stage \in 14..16
    /\ run' = OpStep(run)
    /\ UNCHANGED <<loopVars, prev, klVars>>

\* the optimizer's update
RunTrainStep ==
    /\ Running
    /\ run.stage = 17
    /\ run' = OpStep(run)
    /\ UNCHANGED <<loopVars, prev, klVars>>

Rerun ==
    /\ pc = "graph"
    /\ run.status \in {"done", "failed"}
    /\ prev.status = "idle"
    /\ prev' = run
    /\ \E d \in Seeds, n \in Seeds :
          run' = NewRun(run.fetch, run.b, run.params, d, n)
    /\ UNCHANGED <<loopVars, klVars>>

NextRun == RunEncoder \/ RunDecoder \/ RunLosses \/ RunTrainStep \/ Rerun

SpecRun == InitRun /\ [][NextRun]_vars

\* ------------------------------------------------------------------------
\* latent_loss alone, on one example

InitKL ==
    /\ LoopIdle("kl")
    /\ run = NoRun
    /\ prev = NoRun
    /\ \E n \in 1..MaxLatent :
          /\ kl_mean \in [1..n -> Vals]
          /\ kl_stddev \in [1..n -> Vals]
    /\ kl_done = FALSE
    /\ kl_loss = 0

ComputeLatentLoss ==
    /\ pc = "kl"
    /\ ~kl_done
    /\ kl_loss' = LatentLoss(kl_mean, kl_stddev)
    /\ kl_done' = TRUE
    /\ UNCHANGED <<loopVars, run, prev, kl_mean, kl_stddev>>

NextKL == ComputeLatentLoss

SpecKL == InitKL /\ [][NextKL]_vars

\* ------------------------------------------------------------------------
\* Properties

LoopStopped == pc = "done" \/ (pc = "aborted" /\ failed # "restore")

\* the iterations whose body has been entered and left
IterationsRun == IF pc = "aborted" /\ failed # "restore" THEN i + 1 ELSE i

\* the iterations among IterationsRun whose index is a multiple of log_step
LogIterationsRun == CeilDiv(IterationsRun, log_step)

\* C1: whenever a sess.run has produced img = decoder(z), its shape is
\* (batch, 28, 28, 1) for the batch that was fed to the encoder.
C1_DecoderOutputShape ==
    Has(run, "img") =>
        run.tens["img"] = <<run.b, image_size, image_size, image_channel>>

\* C2: the training loop stops only in its terminal state, with exactly
\* `iterations` iterations executed.
C2_StopsOnlyAtBudget == LoopStopped => (pc = "done" /\ i = iterations)

\* C3: once the loop has stopped or is between two iterations, one line has
\* been written for every iteration run whose index is a multiple of log_step,
\* and no other line.
C3_LineEveryLogStep ==
    (pc \in {"batch", "done"} \/ LoopStopped) => lines = LogIterationsRun

\* C4: after the checkpoint cell, saver.restore has been called if and only if
\* models/ existed with at least one entry; otherwise the variables keep their
\* random initialization.
C4_RestoreIffNonEmpty ==
    pc # "restore" =>
        /\ (restoreCalls > 0) <=> (dirExists /\ dirEntries >= 1)
        /\ restoreCalls = 0 => params.origin = "init"

\* C5: two runs of the encoder on the same feed with the same parameters give
\* the same mean and the same stddev; z differs through the noise alone.
C5_EncoderRepeatable ==
    ( /\ prev.status # "idle"
      /\ Has(prev, "mean")
      /\ Has(run, "mean")
      /\ prev.b = run.b
      /\ prev.meanV.params = run.meanV.params )
    => /\ run.meanV = prev.meanV
       /\ run.stddevV = prev.stddevV
       /\ [run.zV EXCEPT !.noise = 0] = [prev.zV EXCEPT !.noise = 0]

\* C6: every iteration run has applied exactly one optimizer step, so the
\* parameters have received as many steps as iterations were run.
C6_OneStepPerIteration ==
    (pc \in {"batch", "done"} \/ LoopStopped) => params.steps = IterationsRun

\* The part of C6 that does not depend on the loop: a sess.run changes the
\* parameters by its optimizer update alone, which a train_step fetch applies
\* once, at its end, and a log or img fetch never.
RunChangesParamsByApplyOnly ==
    run.status # "idle" =>
        /\ run.params = (IF prev.status = "idle" THEN 0 ELSE prev.params) + run.applied
        /\ run.applied = IF run.fetch = "train_step" /\ run.status = "done" THEN 1 ELSE 0

\* C7: latent_loss is 0 for an example whose mean and stddev are zero vectors,
\* whatever their length.
C7_ZeroLatentLoss ==
    ( /\ kl_done
      /\ \A k \in 1..Len(kl_mean) : kl_mean[k] = 0 /\ kl_stddev[k] = 0 )
    => kl_loss = 0

C7_Witness ==
    /\ kl_done
    /\ Len(kl_mean) = 2
    /\ \A k \in 1..Len(kl_mean) : kl_mean[k] = 0 /\ kl_stddev[k] = 0

\* C8: a sess.run for logging or for visualization applies dropout at no
\* layer.
C8_NoDropoutAtInference ==
    run.fetch \in {"log", "img"} /\ run.status # "idle" => run.dropoutAt = {}

\* C9, as claimed: the transposed convolutions upsample by the factor the
\* encoder's convolutions downsample by, and the decoder's feature map after
\* the last of them has the image's resolution.
C9_UpsamplingMirrorsDownsampling ==
    Has(run, "deconv3") =>
        /\ run.tens["deconv3"][2] * run.tens["enc_conv3"][2]
             = run.tens["dec_reshape"][2] * run.tens["enc_reshape"][2]
        /\ run.tens["deconv3"][2] = image_size
        /\ run.tens["deconv3"][3] = image_size

\* C9, amended: the encoder's convolutions downsample by 4 (28 to 7), the
\* decoder's transposed convolutions upsample by 2 only, their last feature
\* map does not have the image's resolution, and the image's 28x28 is produced
\* by the final dense layer and reshape.
C9_UpsamplingIsHalfOfDownsampling ==
    /\ Has(run, "enc_conv3") =>
          /\ run.tens["enc_conv3"][2] * 4 = run.tens["enc_reshape"][2]
          /\ run.tens["enc_conv3"][3] * 4 = run.tens["enc_reshape"][3]
    /\ Has(run, "deconv3") =>
          /\ run.tens["deconv3"][2] = 2 * run.tens["dec_reshape"][2]
          /\ run.tens["deconv3"][3] = 2 * run.tens["dec_reshape"][3]
          /\ run.tens["deconv3"][2] # image_size
    /\ Has(run, "img") =>
          /\ run.tens["img"][2] = image_size
          /\ run.tens["img"][3] = image_size

C9_Witness ==
    /\ Has(run, "img")
    /\ run.b = batch_size
    /\ run.tens["deconv3"] = <<3, 32, 32, filters>>
    /\ run.tens["enc_conv3"] = <<batch_size, 7, 7, filters>>

\* C10: once a statement has raised, the run is aborted and stays so: no
\* batch is drawn, no optimizer step is applied, no iteration starts.
C10_AbortIsFinal ==
    [][ failed # "none" =>
          /\ pc = "aborted"
          /\ pc' = "aborted"
          /\ drawn' = drawn
          /\ params' = params
          /\ i' = i
          /\ failed' = failed ]_vars

C10_Witness ==
    /\ pc = "aborted"
    /\ failed = "train"
    /\ i = 0
    /\ drawn = 1
    /\ params.steps = 0

=============================================================================
